---- MODULE Spec2Model ----
(***************************************************************************)
(* The hook handler of claude-tools (src/rule-manager.js): a per-session   *)
(* policy engine.  Every invocation is a fresh process that reads one JSON *)
(* event from standard input, consults or changes the marker files of the  *)
(* session under ~/.claude/hook-state, writes one response and exits.      *)
(*                                                                         *)
(* Text (prompts, commands, marker file contents) is a sequence of         *)
(* one-character strings, so that the regular expressions of the source    *)
(* are computed character by character.  Names that the source only        *)
(* compares for equality (session ids, event names, tool names) are        *)
(* strings.                                                                *)
(*                                                                         *)
(* The handler is installed without the -log argument (the installer's     *)
(* hook command is the bare path of rule-manager.js) and the state         *)
(* directory is the user's own: Spec is the handler with logging disabled  *)
(* and storage that works.  SpecFaults adds storage operations that fail,  *)
(* SpecLog the -log argument with log writes that succeed or fail,         *)
(* SpecClassify submits a wide set of prompts to a fresh session,          *)
(* SpecSessions runs invocations of session ids of every kind, and         *)
(* SpecSteps runs invocations one storage operation at a time, a           *)
(* PreToolUse and a cleanup side by side.                                  *)
(***************************************************************************)
EXTENDS Integers, Sequences, FiniteSets, TLC

VARIABLES
    files,      \* the marker files of the state directory: path -> content
    dirExists,  \* whether ~/.claude/hook-state exists
    last,       \* the last invocation: its input, the files before it, its output
    log,        \* the log file of every session: its records, oldest first
    env,        \* the environment of the last invocation: logging and storage
    running     \* the invocations under way, statement by statement (SpecSteps)

vars == <<files, dirExists, last, log, env, running>>

----------------------------------------------------------------------------
(* Bounds of the model *)

\* longest whitespace run generated between a prompt's marker and its body
MaxWs == 2

\* most records the logs of all sessions hold together
MaxLog == 8

\* most pieces a prompt of SpecClassify is put together from
MaxPieces == 3

----------------------------------------------------------------------------
(* JavaScript values *)

\* a property that is absent from the parsed JSON object (a name)
UNDEF == "<undefined>"

\* a property that is absent from the parsed JSON object (a text)
Undefined == <<"<undefined>">>

\* String(v), as RegExp.prototype.test applies it to its argument
StringOf(v) ==
    IF v = Undefined THEN <<"u", "n", "d", "e", "f", "i", "n", "e", "d">> ELSE v

\* a falsy name: the left operand of || is skipped
FalsyName(v) == v = UNDEF \/ v = ""

\* a falsy text: undefined or the empty string
FalsyText(v) == v = Undefined \/ v = <<>>

----------------------------------------------------------------------------
(* Character classes of the regular expressions *)

\* \s
WhiteSpace == {" ", "\t", "\n"}

\* the characters that . does not match
LineTerminators == {"\n"}

LowerCase == <<"a", "b", "c", "d", "e", "f", "g", "h", "i", "j", "k", "l", "m",
               "n", "o", "p", "q", "r", "s", "t", "u", "v", "w", "x", "y", "z">>

UpperCase == <<"A", "B", "C", "D", "E", "F", "G", "H", "I", "J", "K", "L", "M",
               "N", "O", "P", "Q", "R", "S", "T", "U", "V", "W", "X", "Y", "Z">>

Digits == {"0", "1", "2", "3", "4", "5", "6", "7", "8", "9"}

Range(f) == {f[i] : i \in DOMAIN f}

\* \w
WordChars == Range(LowerCase) \cup Range(UpperCase) \cup Digits \cup {"_"}

\* the canonical case of a character under the i flag
ToLower(c) ==
    IF c \in Range(UpperCase)
    THEN LowerCase[CHOOSE i \in DOMAIN UpperCase : UpperCase[i] = c]
    ELSE c

\* s[k] is a word character (FALSE outside the string)
IsWordAt(s, k) == k \in 1..Len(s) /\ s[k] \in WordChars

\* \b between s[k] and s[k+1]
WordBoundary(s, k) == IsWordAt(s, k) # IsWordAt(s, k + 1)

\* the literal lit matches s at position i
MatchAt(s, i, lit) ==
    /\ i >= 1
    /\ i + Len(lit) - 1 <= Len(s)
    /\ \A k \in 1..Len(lit) : s[i + k - 1] = lit[k]

\* the literal lit matches s at position i, ignoring case
MatchAtIgnoreCase(s, i, lit) ==
    /\ i >= 1
    /\ i + Len(lit) - 1 <= Len(s)
    /\ \A k \in 1..Len(lit) : ToLower(s[i + k - 1]) = ToLower(lit[k])

\* s[a..b] is whitespace only (TRUE of an empty range)
AllWhiteSpace(s, a, b) == \A k \in a..b : s[k] \in WhiteSpace

\* s[a..b] holds no line terminator (TRUE of an empty range)
NoLineTerminator(s, a, b) == \A k \in a..b : s[k] \notin LineTerminators

\* s without its leading whitespace run: what \s* consumes at the start
RECURSIVE StripLeadingWhiteSpace(_)
StripLeadingWhiteSpace(s) ==
    IF s # <<>> /\ Head(s) \in WhiteSpace
    THEN StripLeadingWhiteSpace(Tail(s))
    ELSE s

\* s from position i to its end
From(s, i) == SubSeq(s, i, Len(s))

----------------------------------------------------------------------------
(* The literals of the source *)

\* Q: of /^Q:\s/ and /^Q:\s*/
QUESTION_MARKER == <<"Q", ":">>

\* commit! of /^commit!(\s|$)/i and /^commit!\s*/i
COMMIT_MARKER == <<"c", "o", "m", "m", "i", "t", "!">>

\* git and commit of the patterns of isGitCommit
GIT == <<"g", "i", "t">>

COMMIT == <<"c", "o", "m", "m", "i", "t">>

\* SAFE_TOOLS with an entry left out
SAFE_TOOLS_WithoutTodoRead ==
    {"Read", "Grep", "Glob", "LS", "WebFetch", "WebSearch",
     "ListMcpResourcesTool", "ReadMcpResourceTool"}

\* the tools that are safe to use when answering questions
SAFE_TOOLS ==
    {"Read", "Grep", "Glob", "LS", "WebFetch", "WebSearch",
     "ListMcpResourcesTool", "ReadMcpResourceTool", "TodoRead"}

----------------------------------------------------------------------------
(* Prompt classification *)

\* isQuestionPrefix with /^Q:/, the whitespace not required
isQuestionPrefixMarkerOnly(prompt) ==
    MatchAt(StringOf(prompt), 1, <<"Q", ":">>)

\* /^Q:\s/.test(prompt)
isQuestionPrefix(prompt) ==
    LET s == StringOf(prompt) IN
    /\ MatchAt(s, 1, QUESTION_MARKER)
    /\ Len(s) >= Len(QUESTION_MARKER) + 1
    /\ s[Len(QUESTION_MARKER) + 1] \in WhiteSpace

\* isCommitPrefix with /^commit!/i, neither whitespace nor the end required
isCommitPrefixMarkerOnly(prompt) ==
    MatchAtIgnoreCase(StringOf(prompt), 1, <<"c", "o", "m", "m", "i", "t", "!">>)

\* isCommitPrefix without its ^: commit! anywhere, whitespace or the end after
isCommitPrefixUnanchored(prompt) ==
    LET s == StringOf(prompt)
    IN  \E i \in 1..Len(s) :
            /\ MatchAtIgnoreCase(s, i, <<"c", "o", "m", "m", "i", "t", "!">>)
            /\ (i + 7 > Len(s) \/ s[i + 7] \in WhiteSpace)

\* /^commit!(\s|$)/i.test(prompt)
isCommitPrefix(prompt) ==
    LET s == StringOf(prompt) IN
    /\ MatchAtIgnoreCase(s, 1, COMMIT_MARKER)
    /\ \/ Len(s) = Len(COMMIT_MARKER)
       \/ s[Len(COMMIT_MARKER) + 1] \in WhiteSpace

\* StripQuestion with /^Q:\s/, one whitespace character removed
StripQuestionOneSpace(prompt) ==
    IF /\ MatchAt(prompt, 1, <<"Q", ":">>)
       /\ Len(prompt) >= 3
       /\ prompt[3] \in WhiteSpace
    THEN From(prompt, 4)
    ELSE prompt

\* prompt.replace(/^Q:\s*/, '')
StripQuestion(prompt) ==
    IF MatchAt(prompt, 1, QUESTION_MARKER)
    THEN StripLeadingWhiteSpace(From(prompt, Len(QUESTION_MARKER) + 1))
    ELSE prompt

\* prompt.replace(/^commit!\s*/i, '')
StripCommit(prompt) ==
    IF MatchAtIgnoreCase(prompt, 1, COMMIT_MARKER)
    THEN StripLeadingWhiteSpace(From(prompt, Len(COMMIT_MARKER) + 1))
    ELSE prompt

----------------------------------------------------------------------------
(* Command classification *)

\* /\bgit\s+commit\b/ matches command with git at position i
GitCommitPlainAt(command, i) ==
    /\ WordBoundary(command, i - 1)
    /\ MatchAt(command, i, GIT)
    /\ \E k \in 1..Len(command) :
          /\ i + 2 + k <= Len(command)
          /\ AllWhiteSpace(command, i + 3, i + 2 + k)
          /\ MatchAt(command, i + 3 + k, COMMIT)
          /\ WordBoundary(command, i + 2 + k + Len(COMMIT))

\* /\bgit\s+.*\s+commit\b/ matches command with git at position i: a
\* whitespace run of k1, any m characters of one line, a whitespace run of k2
GitCommitFlagsAt(command, i) ==
    /\ WordBoundary(command, i - 1)
    /\ MatchAt(command, i, GIT)
    /\ \E k1 \in 1..Len(command) :
          /\ i + 2 + k1 <= Len(command)
          /\ AllWhiteSpace(command, i + 3, i + 2 + k1)
          /\ \E m \in 0..Len(command) :
                /\ i + 2 + k1 + m <= Len(command)
                /\ NoLineTerminator(command, i + 3 + k1, i + 2 + k1 + m)
                /\ \E k2 \in 1..Len(command) :
                      /\ i + 2 + k1 + m + k2 <= Len(command)
                      /\ AllWhiteSpace(command, i + 3 + k1 + m, i + 2 + k1 + m + k2)
                      /\ MatchAt(command, i + 3 + k1 + m + k2, COMMIT)
                      /\ WordBoundary(command, i + 2 + k1 + m + k2 + Len(COMMIT))

\* isGitCommit with the first pattern alone
isGitCommitPlainOnly(command) ==
    \E i \in 1..Len(command) : GitCommitPlainAt(command, i)

\* gitCommitPatterns.some(pattern => pattern.test(command))
isGitCommit(command) ==
    \/ \E i \in 1..Len(command) : GitCommitPlainAt(command, i)
    \/ \E i \in 1..Len(command) : GitCommitFlagsAt(command, i)

----------------------------------------------------------------------------
(* The state directory *)

\* path.join(getStateDir(), `${session_id}.question.txt`)
getQuestionPath(session_id) == <<session_id, "question.txt">>

\* path.join(getStateDir(), `${session_id}.commit.txt`)
getCommitPath(session_id) == <<session_id, "commit.txt">>

\* the state directory of a fresh installation: no file
NoFiles == [p \in {} |-> <<>>]

\* fs.access(filePath) succeeds
fileExists(fs, filePath) == filePath \in DOMAIN fs

\* createMarkerFile that leaves an existing file as it is
createMarkerFileExclusive(fs, filePath, content) ==
    [p \in DOMAIN fs \cup {filePath} |-> IF p \in DOMAIN fs THEN fs[p] ELSE content]

\* fs.writeFile(filePath, content): creates the file or replaces its content
createMarkerFile(fs, filePath, content) ==
    [p \in DOMAIN fs \cup {filePath} |-> IF p = filePath THEN content ELSE fs[p]]

\* fs.unlink(filePath), its failure on an absent file ignored
deleteMarkerFile(fs, filePath) ==
    [p \in DOMAIN fs \ {filePath} |-> fs[p]]

\* cleanupSession that forgets the commit marker
cleanupSessionQuestionOnly(fs, session_id) ==
    deleteMarkerFile(fs, getQuestionPath(session_id))

\* both marker files of the session deleted, the question marker first
cleanupSession(fs, session_id) ==
    deleteMarkerFile(deleteMarkerFile(fs, getQuestionPath(session_id)),
                     getCommitPath(session_id))

----------------------------------------------------------------------------
(* Responses *)

\* '{}'
NEUTRAL == [shape |-> "empty", text |-> "{}"]

\* { hookSpecificOutput: { additionalContext: ... } }
QUESTION_CONTEXT ==
    [shape |-> "hookSpecificOutput",
     text |-> "USER ASKED A QUESTION: You must answer it before doing anything else."]

\* { error: ... } of the question rule
QUESTION_PENDING ==
    [shape |-> "error",
     text |-> "THE USER ASKED A QUESTION. You must answer the question before performing any actions."]

\* { error: ... } of the commit rule
COMMIT_REFUSED ==
    [shape |-> "error",
     text |-> "Committing without user's review and approval is OFFENSIVE, RUDE, and INAPPROPRIATE."]

\* { error: `Hook handler error: ${error.message}` }
HANDLER_ERROR == [shape |-> "error", text |-> "Hook handler error"]

----------------------------------------------------------------------------
(* The input of an invocation: the text on standard input, by what         *)
(* JSON.parse makes of it.  parse is "object" for a JSON value whose       *)
(* properties can be read, "null" for the JSON text null, "SyntaxError"    *)
(* for a text JSON.parse rejects.                                          *)

\* a tool parameter property that holds no object
NoObject == [present |-> FALSE, command |-> Undefined]

\* a tool parameter object, with its command property
Object(command) == [present |-> TRUE, command |-> command]

\* a JSON value without any of the properties the handler reads
EmptyData ==
    [parse |-> "object", session_id |-> UNDEF, hook_event_name |-> UNDEF,
     prompt |-> Undefined, tool_name |-> UNDEF, tool |-> UNDEF,
     tool_input |-> NoObject, params |-> NoObject, parameters |-> NoObject]

\* no invocation yet
NoStdin == [EmptyData EXCEPT !.parse = "none"]

\* the session ids on the input: a named session, and no session id
SessionIds == {"s1", UNDEF}

Event(session_id, hook_event_name) ==
    [EmptyData EXCEPT !.session_id = session_id,
                      !.hook_event_name = hook_event_name]

\* k spaces
RECURSIVE Spaces(_)
Spaces(k) == IF k = 0 THEN <<>> ELSE <<" ">> \o Spaces(k - 1)

\* the whitespace runs of at most n characters: spaces, or a tab and spaces
WsRuns(n) ==
    {Spaces(k) : k \in 0..n} \cup {<<"\t">> \o Spaces(k - 1) : k \in 1..n}

PromptMarkers ==
    {<<>>, <<"Q", ":">>, <<"q", ":">>,
     <<"c", "o", "m", "m", "i", "t", "!">>,
     <<"C", "O", "M", "M", "I", "T", "!">>}

PromptBodies == {<<>>, <<"x">>}

\* marker, whitespace run, body
Prompts ==
    {m \o w \o b : m \in PromptMarkers, w \in WsRuns(MaxWs), b \in PromptBodies}

PromptEvents ==
    {[Event(sid, "UserPromptSubmit") EXCEPT !.prompt = p] :
        sid \in SessionIds, p \in Prompts \cup {Undefined}}

\* the command git commit
GIT_COMMIT == <<"g", "i", "t", " ", "c", "o", "m", "m", "i", "t">>

Commands ==
    {<<>>,
     GIT_COMMIT,
     <<"g", "i", "t", " ", "-", "c", " ", "a", "=", "b", " ", "c", "o", "m", "m", "i", "t">>,
     <<"g", "i", "t", " ", "s", "t", "a", "t", "u", "s">>,
     <<"g", "i", "t", "c", "o", "m", "m", "i", "t">>,
     <<"g", "i", "t", " ", "l", "o", "g", " ", "-", "-", "g", "r", "e", "p", " ",
       "c", "o", "m", "m", "i", "t">>,
     <<"l", "s">>}

\* the tool names on the input: the read-only tools, tools that change
\* things, and no tool name
ToolNames ==
    {"Read", "Grep", "Glob", "LS", "WebFetch", "WebSearch",
     "ListMcpResourcesTool", "ReadMcpResourceTool", "TodoRead",
     "Bash", "Write", "TodoWrite", UNDEF}

\* the tool calls on the input: tool name and parameter object
ToolCalls ==
    ({"Bash"} \X ({NoObject, Object(Undefined)} \cup {Object(c) : c \in Commands}))
    \cup ({"Write"} \X {Object(GIT_COMMIT)})
    \cup (ToolNames \X {Object(Undefined)})

\* tool_name and tool_input, or one of the legacy property names
ToolEvents ==
    {[Event(sid, "PreToolUse") EXCEPT !.tool_name = c[1], !.tool_input = c[2]] :
        sid \in SessionIds, c \in ToolCalls}
    \cup {[Event(sid, "PreToolUse") EXCEPT !.tool = c[1], !.params = c[2]] :
        sid \in SessionIds, c \in {"Bash", "Read"} \X {Object(GIT_COMMIT)}}
    \cup {[Event(sid, "PreToolUse") EXCEPT !.tool = c[1], !.parameters = c[2]] :
        sid \in SessionIds, c \in {"Bash"} \X {Object(GIT_COMMIT)}}

CleanupEvents ==
    {Event(sid, name) : sid \in SessionIds, name \in {"Stop", "SessionStart"}}

OtherEvents ==
    {Event(sid, name) : sid \in SessionIds, name \in {"Notification", UNDEF}}

MalformedInputs ==
    {[EmptyData EXCEPT !.parse = k] : k \in {"SyntaxError", "null"}}

----------------------------------------------------------------------------
(* The handler *)

\* hookData.session_id || 'unknown'
SessionOf(hookData) ==
    IF FalsyName(hookData.session_id) THEN "unknown" ELSE hookData.session_id

\* hookData.tool_name || hookData.tool
ToolNameOf(hookData) ==
    IF FalsyName(hookData.tool_name) THEN hookData.tool ELSE hookData.tool_name

\* hookData.tool_input || hookData.params || hookData.parameters
ToolParamsOf(hookData) ==
    IF hookData.tool_input.present THEN hookData.tool_input
    ELSE IF hookData.params.present THEN hookData.params
    ELSE hookData.parameters

\* toolParams?.command
CommandOf(toolParams) ==
    IF toolParams.present THEN toolParams.command ELSE Undefined

\* isGitCommit over the commands of the model, computed once
GitCommitOf == [c \in Commands |-> isGitCommit(c)]

\* the sessions whose files the model can hold
Sessions == {SessionOf(Event(sid, UNDEF)) : sid \in SessionIds}

\* no log file holds a record
NoLogs == [s \in Sessions |-> <<>>]

\* no -log argument, and every storage operation succeeds
Nominal == [logging |-> "off", fault |-> "none"]

\* an invocation that is not under way: no statements, no input, and no
\* cleanup that it raced with
NoProcess ==
    [program |-> <<>>, pc |-> 0, stdin |-> NoStdin, pre |-> NoFiles,
     raced |-> FALSE, before |-> NoFiles]

\* no invocation is under way
Idle == [prompt |-> NoProcess, check |-> NoProcess, cleanup |-> NoProcess]

\* the record of an invocation that ended
Ended(stdin, exit, stdout, stderr) ==
    [stdin |-> stdin, pre |-> files, exit |-> exit,
     stdout |-> stdout, stderr |-> stderr]

\* PreToolUseDecision with the commit rule before the question rule
PreToolUseDecisionCommitFirst(fs, hookData) ==
    LET session_id == SessionOf(hookData)
        toolName == ToolNameOf(hookData)
        command == CommandOf(ToolParamsOf(hookData))
        hasQuestion == fileExists(fs, getQuestionPath(session_id))
    IN  IF toolName = "Bash" /\ ~FalsyText(command) /\ GitCommitOf[command]
        THEN IF fileExists(fs, getCommitPath(session_id))
             THEN NEUTRAL
             ELSE COMMIT_REFUSED
        ELSE IF hasQuestion /\ toolName \notin SAFE_TOOLS
             THEN QUESTION_PENDING
             ELSE NEUTRAL

\* the decision of case 'PreToolUse' on the files fs: the response it writes
\* when it blocks, NEUTRAL when it allows
PreToolUseDecision(fs, hookData) ==
    LET session_id == SessionOf(hookData)
        toolName == ToolNameOf(hookData)
        command == CommandOf(ToolParamsOf(hookData))
        hasQuestion == fileExists(fs, getQuestionPath(session_id))
    IN  IF hasQuestion /\ toolName \notin SAFE_TOOLS
        THEN QUESTION_PENDING
        ELSE IF /\ toolName = "Bash"
                /\ ~FalsyText(command)
                /\ GitCommitOf[command]
                /\ ~fileExists(fs, getCommitPath(session_id))
             THEN COMMIT_REFUSED
             ELSE NEUTRAL

Init ==
    /\ files = NoFiles
    /\ dirExists = FALSE
    /\ last = [stdin |-> NoStdin, pre |-> NoFiles, exit |-> 0,
               stdout |-> <<>>, stderr |-> <<>>]
    /\ log = NoLogs
    /\ env = Nominal
    /\ running = Idle

\* UserPromptSubmit without its break: control falls into case 'PreToolUse'
UserPromptSubmitFallsThrough(hookData) ==
    /\ hookData.parse = "object"
    /\ hookData.hook_event_name = "UserPromptSubmit"
    /\ LET session_id == SessionOf(hookData)
           prompt == hookData.prompt
           hasQuestion == isQuestionPrefix(prompt)
           allowCommit == isCommitPrefix(prompt)
           afterQuestion ==
               IF hasQuestion
               THEN createMarkerFile(files, getQuestionPath(session_id),
                                     StripQuestion(prompt))
               ELSE files
           afterCommit ==
               IF allowCommit
               THEN createMarkerFile(afterQuestion, getCommitPath(session_id),
                                     StripCommit(prompt))
               ELSE afterQuestion
           first == IF hasQuestion THEN QUESTION_CONTEXT ELSE NEUTRAL
           second == PreToolUseDecision(afterCommit, hookData)
       IN  /\ files' = afterCommit
           /\ dirExists' = (dirExists \/ hasQuestion \/ allowCommit)
           /\ last' = IF second.shape = "error"
                      THEN Ended(hookData, 2, <<first>>, <<second>>)
                      ELSE Ended(hookData, 0, <<first, second>>, <<>>)

\* case 'UserPromptSubmit'
UserPromptSubmit(hookData) ==
    /\ hookData.parse = "object"
    /\ hookData.hook_event_name = "UserPromptSubmit"
    /\ LET session_id == SessionOf(hookData)
           prompt == hookData.prompt
           hasQuestion == isQuestionPrefix(prompt)
           allowCommit == isCommitPrefix(prompt)
           afterQuestion ==
               IF hasQuestion
               THEN createMarkerFile(files, getQuestionPath(session_id),
                                     StripQuestion(prompt))
               ELSE files
           afterCommit ==
               IF allowCommit
               THEN createMarkerFile(afterQuestion, getCommitPath(session_id),
                                     StripCommit(prompt))
               ELSE afterQuestion
       IN  /\ files' = afterCommit
           /\ dirExists' = (dirExists \/ hasQuestion \/ allowCommit)
           /\ last' = Ended(hookData, 0,
                            <<IF hasQuestion THEN QUESTION_CONTEXT ELSE NEUTRAL>>,
                            <<>>)

\* PreToolUse that spends the approval on the commit it allows
PreToolUseConsumesApproval(hookData) ==
    /\ hookData.parse = "object"
    /\ hookData.hook_event_name = "PreToolUse"
    /\ LET response == PreToolUseDecision(files, hookData)
       IN  /\ last' = IF response.shape = "error"
                      THEN Ended(hookData, 2, <<>>, <<response>>)
                      ELSE Ended(hookData, 0, <<response>>, <<>>)
           /\ files' = IF response.shape = "error"
                       THEN files
                       ELSE deleteMarkerFile(files, getCommitPath(SessionOf(hookData)))
           /\ UNCHANGED dirExists

\* PreToolUse without process.exit(2) after the error: control reaches the
\* console.log('{}') of the allow path
PreToolUseBlockWithoutExit(hookData) ==
    /\ hookData.parse = "object"
    /\ hookData.hook_event_name = "PreToolUse"
    /\ LET response == PreToolUseDecision(files, hookData)
       IN  /\ last' = IF response.shape = "error"
                      THEN Ended(hookData, 0, <<NEUTRAL>>, <<response>>)
                      ELSE Ended(hookData, 0, <<response>>, <<>>)
           /\ UNCHANGED <<files, dirExists>>

\* PreToolUse that removes the question marker once it has blocked a tool
PreToolUseExpiresQuestion(hookData) ==
    /\ hookData.parse = "object"
    /\ hookData.hook_event_name = "PreToolUse"
    /\ LET response == PreToolUseDecision(files, hookData)
       IN  /\ last' = IF response.shape = "error"
                      THEN Ended(hookData, 2, <<>>, <<response>>)
                      ELSE Ended(hookData, 0, <<response>>, <<>>)
           /\ files' = IF response = QUESTION_PENDING
                       THEN deleteMarkerFile(files, getQuestionPath(SessionOf(hookData)))
                       ELSE files
           /\ UNCHANGED dirExists

\* case 'PreToolUse': a block writes the error to standard error and exits
\* with code 2, an allow writes '{}' to standard output
PreToolUse(hookData) ==
    /\ hookData.parse = "object"
    /\ hookData.hook_event_name = "PreToolUse"
    /\ LET response == PreToolUseDecision(files, hookData)
       IN  /\ last' = IF response.shape = "error"
                      THEN Ended(hookData, 2, <<>>, <<response>>)
                      ELSE Ended(hookData, 0, <<response>>, <<>>)
           /\ UNCHANGED <<files, dirExists>>

\* case 'Stop', case 'SessionStart'
SessionCleanup(hookData) ==
    /\ hookData.parse = "object"
    /\ hookData.hook_event_name \in {"Stop", "SessionStart"}
    /\ files' = cleanupSession(files, SessionOf(hookData))
    /\ last' = Ended(hookData, 0, <<NEUTRAL>>, <<>>)
    /\ UNCHANGED dirExists

\* the default case running the cleanup of the session
PassthroughCleansUp(hookData) ==
    /\ hookData.parse = "object"
    /\ hookData.hook_event_name \notin
          {"UserPromptSubmit", "PreToolUse", "Stop", "SessionStart"}
    /\ files' = cleanupSession(files, SessionOf(hookData))
    /\ last' = Ended(hookData, 0, <<NEUTRAL>>, <<>>)
    /\ UNCHANGED dirExists

\* default: any other event name, a missing one included
Passthrough(hookData) ==
    /\ hookData.parse = "object"
    /\ hookData.hook_event_name \notin
          {"UserPromptSubmit", "PreToolUse", "Stop", "SessionStart"}
    /\ last' = Ended(hookData, 0, <<NEUTRAL>>, <<>>)
    /\ UNCHANGED <<files, dirExists>>

\* the catch block exiting with the refusal code
CatchResponseExit2(stdin) == Ended(stdin, 2, <<HANDLER_ERROR>>, <<>>)

\* the response of the catch block
CatchResponse(stdin) == Ended(stdin, 1, <<HANDLER_ERROR>>, <<>>)

\* JSON.parse throws, or reading a property of null throws: the catch block
ParseFault(stdin) ==
    /\ stdin.parse \in {"SyntaxError", "null"}
    /\ last' = CatchResponse(stdin)
    /\ UNCHANGED <<files, dirExists>>

\* one invocation, logging disabled and storage working
Next ==
    \/ \E hookData \in PromptEvents :
          UserPromptSubmit(hookData) /\ UNCHANGED <<log, env, running>>
    \/ \E hookData \in ToolEvents :
          PreToolUse(hookData) /\ UNCHANGED <<log, env, running>>
    \/ \E hookData \in CleanupEvents :
          SessionCleanup(hookData) /\ UNCHANGED <<log, env, running>>
    \/ \E hookData \in OtherEvents :
          Passthrough(hookData) /\ UNCHANGED <<log, env, running>>
    \/ \E stdin \in MalformedInputs :
          ParseFault(stdin) /\ UNCHANGED <<log, env, running>>

Spec == Init /\ [][Next]_vars

----------------------------------------------------------------------------
(* The handler with its environment: the -log argument and the outcome of  *)
(* the storage operations.  An invocation under way is a record r: the     *)
(* marker files, the logs and the state directory as it has left them so   *)
(* far, what it has written to each output, and its status, "running",     *)
(* "thrown" while an error propagates, or "exited" with r.exit after       *)
(* process.exit.  A statement reached with another status than "running"   *)
(* is not executed.                                                        *)

\* enableLogging false; true with writes that succeed; true with fs.appendFile
\* rejecting every write
LogModes == {"off", "on", "failing"}

\* the storage operation that rejects during the invocation, if any
Faults == {"none", "mkdir", "writeFile", "access", "unlink"}

\* { error: `Fatal error: ${error.message}` }
FATAL_ERROR == [shape |-> "error", text |-> "Fatal error"]

\* the start of handleHook
Started(fs, lg, dir) ==
    [files |-> fs, log |-> lg, dir |-> dir, stdout |-> <<>>, stderr |-> <<>>,
     exit |-> 0, status |-> "running"]

\* an error is thrown, or a promise rejects
Throw(r) == [r EXCEPT !.status = "thrown"]

\* a catch clause is entered
Catch(r) == [r EXCEPT !.status = "running"]

\* console.log(JSON.stringify(response))
consoleLog(r, response) ==
    IF r.status # "running" THEN r ELSE [r EXCEPT !.stdout = Append(@, response)]

\* console.error(JSON.stringify(response))
consoleError(r, response) ==
    IF r.status # "running" THEN r ELSE [r EXCEPT !.stderr = Append(@, response)]

\* process.exit(code)
processExit(r, code) ==
    IF r.status # "running" THEN r ELSE [r EXCEPT !.exit = code, !.status = "exited"]

\* await fs.mkdir(getStateDir(), { recursive: true })
ensureStateDir(r, e) ==
    IF e.fault = "mkdir" THEN Throw(r) ELSE [r EXCEPT !.dir = TRUE]

\* writeLog without its try and catch
writeLogUnguarded(r, session_id, entry, e) ==
    IF r.status # "running" \/ e.logging = "off"
    THEN r
    ELSE LET d == ensureStateDir(r, e)
         IN  IF d.status = "thrown" \/ e.logging = "failing"
             THEN Throw(d)
             ELSE [d EXCEPT !.log[session_id] = Append(@, entry)]

\* writeLog with fs.writeFile in the place of fs.appendFile
writeLogReplacing(r, session_id, entry, e) ==
    IF r.status # "running" \/ e.logging = "off"
    THEN r
    ELSE LET d == ensureStateDir(r, e)
         IN  IF d.status = "thrown" \/ e.logging = "failing"
             THEN Catch(d)
             ELSE [d EXCEPT !.log[session_id] = <<entry>>]

\* await writeLog(session_id, entry): the entry is its event property
writeLog(r, session_id, entry, e) ==
    IF r.status # "running" \/ e.logging = "off"
    THEN r
    ELSE LET d == ensureStateDir(r, e)
         IN  IF d.status = "thrown" \/ e.logging = "failing"
             THEN Catch(d)
             ELSE [d EXCEPT !.log[session_id] = Append(@, entry)]

\* await fileExists(filePath): a rejected fs.access is a file that is absent
tryFileExists(r, filePath, e) ==
    e.fault # "access" /\ fileExists(r.files, filePath)

\* await createMarkerFile(filePath, content)
tryCreateMarkerFile(r, filePath, content, e) ==
    IF r.status # "running"
    THEN r
    ELSE LET d == ensureStateDir(r, e)
         IN  IF d.status = "thrown" THEN d
             ELSE IF e.fault = "writeFile" THEN Throw(d)
             ELSE [d EXCEPT !.files = createMarkerFile(@, filePath, content)]

\* deleteMarkerFile without its try and catch: fs.unlink rejects for a file
\* that is absent
tryDeleteMarkerFileUnguarded(r, filePath, e) ==
    IF r.status # "running" THEN r
    ELSE IF e.fault = "unlink" \/ filePath \notin DOMAIN r.files THEN Throw(r)
    ELSE [r EXCEPT !.files = deleteMarkerFile(@, filePath)]

\* await deleteMarkerFile(filePath)
tryDeleteMarkerFile(r, filePath, e) ==
    IF r.status # "running" \/ e.fault = "unlink"
    THEN r
    ELSE [r EXCEPT !.files = deleteMarkerFile(@, filePath)]

\* await cleanupSession(session_id)
tryCleanupSession(r, session_id, e) ==
    tryDeleteMarkerFile(tryDeleteMarkerFile(r, getQuestionPath(session_id), e),
                        getCommitPath(session_id), e)

\* case 'UserPromptSubmit'
caseUserPromptSubmit(r, hookData, e) ==
    LET session_id == SessionOf(hookData)
        prompt == hookData.prompt
        hasQuestion == isQuestionPrefix(prompt)
        allowCommit == isCommitPrefix(prompt)
        afterQuestion ==
            IF hasQuestion
            THEN writeLog(tryCreateMarkerFile(r, getQuestionPath(session_id),
                                              StripQuestion(prompt), e),
                          session_id, "question_detected", e)
            ELSE r
        afterCommit ==
            IF allowCommit
            THEN writeLog(tryCreateMarkerFile(afterQuestion,
                                              getCommitPath(session_id),
                                              StripCommit(prompt), e),
                          session_id, "commit_allowed", e)
            ELSE afterQuestion
    IN  consoleLog(writeLog(afterCommit, session_id, "response", e),
                   IF hasQuestion THEN QUESTION_CONTEXT ELSE NEUTRAL)

\* case 'PreToolUse'
casePreToolUse(r, hookData, e) ==
    LET session_id == SessionOf(hookData)
        toolName == ToolNameOf(hookData)
        command == CommandOf(ToolParamsOf(hookData))
        hasQuestion == tryFileExists(r, getQuestionPath(session_id), e)
        checked == writeLog(r, session_id, "pretooluse_check", e)
    IN  IF hasQuestion /\ toolName \notin SAFE_TOOLS
        THEN processExit(
                 consoleError(writeLog(checked, session_id, "blocking_tool", e),
                              QUESTION_PENDING), 2)
        ELSE IF toolName = "Bash" /\ ~FalsyText(command) /\ GitCommitOf[command]
        THEN IF ~tryFileExists(checked, getCommitPath(session_id), e)
             THEN processExit(
                      consoleError(writeLog(checked, session_id,
                                            "blocking_git_commit", e),
                                   COMMIT_REFUSED), 2)
             ELSE consoleLog(
                      writeLog(writeLog(checked, session_id,
                                        "allowing_git_commit", e),
                               session_id, "allowing_tool", e),
                      NEUTRAL)
        ELSE consoleLog(writeLog(checked, session_id, "allowing_tool", e), NEUTRAL)

\* case 'Stop', case 'SessionStart'
caseSessionCleanup(r, hookData, e) ==
    LET session_id == SessionOf(hookData)
    IN  consoleLog(
            tryCleanupSession(writeLog(r, session_id, "session_cleanup", e),
                              session_id, e),
            NEUTRAL)

\* default
caseDefault(r, hookData, e) ==
    consoleLog(writeLog(r, SessionOf(hookData), "passthrough", e), NEUTRAL)

\* handleHook().catch(...) around handleHook: the try block, its catch block,
\* and the handler of a rejection of handleHook itself
handleHook(fs, lg, dir, stdin, e) ==
    LET session_id ==
            IF stdin.parse = "object" THEN SessionOf(stdin) ELSE "unknown"
        received ==
            IF stdin.parse = "object"
            THEN writeLog(Started(fs, lg, dir), session_id, "hook_received", e)
            ELSE Throw(Started(fs, lg, dir))
        tried ==
            IF received.status # "running" THEN received
            ELSE IF stdin.hook_event_name = "UserPromptSubmit"
            THEN caseUserPromptSubmit(received, stdin, e)
            ELSE IF stdin.hook_event_name = "PreToolUse"
            THEN casePreToolUse(received, stdin, e)
            ELSE IF stdin.hook_event_name \in {"Stop", "SessionStart"}
            THEN caseSessionCleanup(received, stdin, e)
            ELSE caseDefault(received, stdin, e)
        caught ==
            IF tried.status = "thrown"
            THEN processExit(
                     consoleLog(writeLog(Catch(tried), session_id, "error", e),
                                HANDLER_ERROR), 1)
            ELSE tried
    IN  IF caught.status = "thrown"
        THEN processExit(consoleError(Catch(caught), FATAL_ERROR), 1)
        ELSE caught

\* the prompts, tool calls and other inputs of the invocations below
X_PROMPT == <<"x">>

InvocationsOf(sessionIds) ==
    {[Event(sid, "UserPromptSubmit") EXCEPT !.prompt = p] :
        sid \in sessionIds,
        p \in {<<"Q", ":", " ">> \o X_PROMPT,
               <<"c", "o", "m", "m", "i", "t", "!", " ">> \o X_PROMPT,
               X_PROMPT}}
    \cup {[Event(sid, "PreToolUse") EXCEPT !.tool_name = t[1], !.tool_input = t[2]] :
            sid \in sessionIds,
            t \in {<<"Bash", Object(GIT_COMMIT)>>, <<"Bash", Object(<<"l", "s">>)>>,
                   <<"Write", NoObject>>, <<"Read", NoObject>>}}
    \cup {Event(sid, name) :
            sid \in sessionIds, name \in {"Stop", "SessionStart", "Notification"}}

Invocations == InvocationsOf(SessionIds) \cup MalformedInputs

\* one invocation of the handler in the environment e
Invoke(stdin, e) ==
    LET r == handleHook(files, log, dirExists, stdin, e)
    IN  /\ files' = r.files
        /\ log' = r.log
        /\ dirExists' = r.dir
        /\ env' = e
        /\ last' = Ended(stdin, r.exit, r.stdout, r.stderr)
        /\ UNCHANGED running

\* invocations with logging disabled, each with at most one storage operation
\* that fails
NextFaults ==
    \E stdin \in Invocations, fault \in Faults :
        Invoke(stdin, [logging |-> "off", fault |-> fault])

SpecFaults == Init /\ [][NextFaults]_vars

\* session ids as any string of the input: two names, the name the handler
\* gives to a missing id, and the empty string
ManySessionIds == {"s1", "s2", "unknown", ""}

\* invocations of several sessions, one after the other in any order, logging
\* disabled and storage working
NextSessions ==
    \E stdin \in InvocationsOf(ManySessionIds) : Invoke(stdin, Nominal)

SpecSessions == Init /\ [][NextSessions]_vars

\* the number of records in all the logs lg
RECURSIVE TotalRecords(_, _)
TotalRecords(lg, ss) ==
    IF ss = {} THEN 0
    ELSE LET s == CHOOSE x \in ss : TRUE
         IN  Len(lg[s]) + TotalRecords(lg, ss \ {s})

\* the -log argument is given or not, once for all invocations
InitLog ==
    /\ files = NoFiles
    /\ dirExists = FALSE
    /\ last = [stdin |-> NoStdin, pre |-> NoFiles, exit |-> 0,
               stdout |-> <<>>, stderr |-> <<>>]
    /\ log = NoLogs
    /\ env \in {[logging |-> mode, fault |-> "none"] : mode \in LogModes}
    /\ running = Idle

\* invocations in the logging mode of the behaviour, while the logs hold at
\* most MaxLog records
NextLog ==
    \E stdin \in Invocations :
        /\ TotalRecords(handleHook(files, log, dirExists, stdin, env).log,
                        Sessions) <= MaxLog
        /\ Invoke(stdin, env)

SpecLog == InitLog /\ [][NextLog]_vars

\* up to n of the pieces a prompt is put together from, in every order
RECURSIVE Pieces(_)
Pieces(n) ==
    IF n = 0 THEN {<<>>}
    ELSE Pieces(n - 1) \cup
         {p \o t : p \in Pieces(n - 1),
                   t \in {<<"Q", ":">>, <<"c", "o", "m", "m", "i", "t", "!">>,
                          <<"C", "o", "m", "m", "i", "t", "!">>,
                          <<" ">>, <<"\n">>, <<"x">>}}

\* a prompt submitted to a session that has no flag yet
NextClassify ==
    \E prompt \in Pieces(MaxPieces) :
        /\ files = NoFiles
        /\ UserPromptSubmit([Event("s1", "UserPromptSubmit") EXCEPT !.prompt = prompt])
        /\ UNCHANGED <<log, env, running>>

SpecClassify == Init /\ [][NextClassify]_vars

----------------------------------------------------------------------------
(* Invocations one storage operation at a time.  Every invocation is a     *)
(* process of its own, so a PreToolUse and a cleanup of the same session   *)
(* can run side by side: each await of a storage operation is a step, and  *)
(* the steps of the two interleave in any order.  A prompt runs alone.     *)
(* Logging is disabled and storage works.                                  *)

\* the awaited operations and the output of case 'UserPromptSubmit', in the
\* order of the source, with the response written first
promptProgramRespondsFirst(hookData) ==
    <<"respond">>
    \o (IF isQuestionPrefix(hookData.prompt) THEN <<"writeQuestion">> ELSE <<>>)
    \o (IF isCommitPrefix(hookData.prompt) THEN <<"writeCommit">> ELSE <<>>)

\* the awaited operations and the output of case 'UserPromptSubmit', in the
\* order of the source
promptProgram(hookData) ==
    (IF isQuestionPrefix(hookData.prompt) THEN <<"writeQuestion">> ELSE <<>>)
    \o (IF isCommitPrefix(hookData.prompt) THEN <<"writeCommit">> ELSE <<>>)
    \o <<"respond">>

\* case 'PreToolUse': the two reads; the output follows the read that decides
checkProgram == <<"accessQuestion", "accessCommit">>

\* case 'Stop', case 'SessionStart': cleanupSession, then the output
cleanupProgram == <<"unlinkQuestion", "unlinkCommit", "respond">>

\* the process has statements left
IsRunning(process) == process.pc \in 1..Len(process.program)

\* the process after its next statement: gone after the last one
Advanced(process) ==
    IF process.pc = Len(process.program)
    THEN NoProcess
    ELSE [process EXCEPT !.pc = @ + 1]

\* the process starts on the input stdin
Start(program, stdin) ==
    [NoProcess EXCEPT !.program = program, !.pc = 1, !.stdin = stdin, !.pre = files]

\* the inputs of the processes, all of one session
StepPrompts ==
    {[Event("s1", "UserPromptSubmit") EXCEPT !.prompt = p] :
        p \in {<<"Q", ":", " ">> \o X_PROMPT,
               <<"c", "o", "m", "m", "i", "t", "!", " ">> \o X_PROMPT,
               X_PROMPT}}

StepChecks ==
    {[Event("s1", "PreToolUse") EXCEPT !.tool_name = t[1], !.tool_input = t[2]] :
        t \in {<<"Bash", Object(GIT_COMMIT)>>, <<"Write", NoObject>>,
               <<"Read", NoObject>>}}

StepCleanups == {Event("s1", name) : name \in {"Stop", "SessionStart"}}

\* a UserPromptSubmit process starts, no other process under way
StartPrompt(hookData) ==
    /\ ~IsRunning(running.prompt)
    /\ ~IsRunning(running.check)
    /\ ~IsRunning(running.cleanup)
    /\ running' = [running EXCEPT !.prompt = Start(promptProgram(hookData), hookData)]
    /\ UNCHANGED <<files, dirExists, last, log, env>>

\* the next statement of the UserPromptSubmit process
PromptStep ==
    LET process == running.prompt
        hookData == process.stdin
        session_id == SessionOf(hookData)
        statement == process.program[process.pc]
    IN  /\ IsRunning(process)
        /\ running' = [running EXCEPT !.prompt = Advanced(process)]
        /\ files' =
              IF statement = "writeQuestion"
              THEN createMarkerFile(files, getQuestionPath(session_id),
                                    StripQuestion(hookData.prompt))
              ELSE IF statement = "writeCommit"
              THEN createMarkerFile(files, getCommitPath(session_id),
                                    StripCommit(hookData.prompt))
              ELSE files
        /\ dirExists' = (dirExists \/ statement # "respond")
        /\ last' =
              IF statement = "respond"
              THEN [stdin |-> hookData, pre |-> process.pre, exit |-> 0,
                    stdout |-> <<IF isQuestionPrefix(hookData.prompt)
                                 THEN QUESTION_CONTEXT ELSE NEUTRAL>>,
                    stderr |-> <<>>]
              ELSE last
        /\ UNCHANGED <<log, env>>

\* a PreToolUse process starts; a cleanup of its session may be under way
StartCheck(hookData) ==
    /\ ~IsRunning(running.prompt)
    /\ ~IsRunning(running.check)
    /\ LET raced == /\ IsRunning(running.cleanup)
                    /\ SessionOf(running.cleanup.stdin) = SessionOf(hookData)
       IN  running' =
               [running EXCEPT !.check =
                   [Start(checkProgram, hookData) EXCEPT
                       !.raced = raced,
                       !.before = IF raced THEN running.cleanup.pre ELSE NoFiles]]
    /\ UNCHANGED <<files, dirExists, last, log, env>>

\* the PreToolUse process has decided: it writes the response and exits
Decided(process, response) ==
    /\ running' = [running EXCEPT !.check = NoProcess]
    /\ last' = [stdin |-> process.stdin, pre |-> process.pre,
                exit |-> IF response.shape = "error" THEN 2 ELSE 0,
                stdout |-> IF response.shape = "error" THEN <<>> ELSE <<response>>,
                stderr |-> IF response.shape = "error" THEN <<response>> ELSE <<>>]

\* the next read of the PreToolUse process, and what follows it up to the
\* next read or the exit
CheckStep ==
    LET process == running.check
        hookData == process.stdin
        session_id == SessionOf(hookData)
        toolName == ToolNameOf(hookData)
        command == CommandOf(ToolParamsOf(hookData))
    IN  /\ IsRunning(process)
        /\ IF process.program[process.pc] = "accessQuestion"
           THEN IF /\ fileExists(files, getQuestionPath(session_id))
                   /\ toolName \notin SAFE_TOOLS
                THEN Decided(process, QUESTION_PENDING)
                ELSE IF toolName = "Bash" /\ ~FalsyText(command) /\ GitCommitOf[command]
                THEN running' = [running EXCEPT !.check.pc = @ + 1] /\ UNCHANGED last
                ELSE Decided(process, NEUTRAL)
           ELSE IF fileExists(files, getCommitPath(session_id))
                THEN Decided(process, NEUTRAL)
                ELSE Decided(process, COMMIT_REFUSED)
        /\ UNCHANGED <<files, dirExists, log, env>>

\* a Stop or SessionStart process starts; a PreToolUse of its session may be
\* under way
StartCleanup(hookData) ==
    /\ ~IsRunning(running.prompt)
    /\ ~IsRunning(running.cleanup)
    /\ LET races == /\ IsRunning(running.check)
                    /\ ~running.check.raced
                    /\ SessionOf(running.check.stdin) = SessionOf(hookData)
       IN  running' =
               [running EXCEPT
                   !.cleanup = Start(cleanupProgram, hookData),
                   !.check.raced = @ \/ races,
                   !.check.before = IF races THEN files ELSE @]
    /\ UNCHANGED <<files, dirExists, last, log, env>>

\* the next statement of the cleanup process
CleanupStep ==
    LET process == running.cleanup
        hookData == process.stdin
        session_id == SessionOf(hookData)
        statement == process.program[process.pc]
    IN  /\ IsRunning(process)
        /\ running' = [running EXCEPT !.cleanup = Advanced(process)]
        /\ files' =
              IF statement = "unlinkQuestion"
              THEN deleteMarkerFile(files, getQuestionPath(session_id))
              ELSE IF statement = "unlinkCommit"
              THEN deleteMarkerFile(files, getCommitPath(session_id))
              ELSE files
        /\ last' =
              IF statement = "respond"
              THEN [stdin |-> hookData, pre |-> process.pre, exit |-> 0,
                    stdout |-> <<NEUTRAL>>, stderr |-> <<>>]
              ELSE last
        /\ UNCHANGED <<dirExists, log, env>>

NextSteps ==
    \/ \E hookData \in StepPrompts : StartPrompt(hookData)
    \/ PromptStep
    \/ \E hookData \in StepChecks : StartCheck(hookData)
    \/ CheckStep
    \/ \E hookData \in StepCleanups : StartCleanup(hookData)
    \/ CleanupStep

SpecSteps == Init /\ [][NextSteps]_vars

----------------------------------------------------------------------------
(* Vocabulary of the properties: the last invocation, read from last *)

\* the last invocation handled a well-formed event of the given kind
LastIs(hook_event_name) ==
    /\ last.stdin.parse = "object"
    /\ last.stdin.hook_event_name = hook_event_name

LastSession == SessionOf(last.stdin)

LastTool == ToolNameOf(last.stdin)

LastCommand == CommandOf(ToolParamsOf(last.stdin))

\* the flags of the session of the last invocation, before it
HadQuestion == getQuestionPath(LastSession) \in DOMAIN last.pre

HadCommit == getCommitPath(LastSession) \in DOMAIN last.pre

\* everything the last invocation wrote, on either channel
Responses == last.stdout \o last.stderr

\* outcome ALLOW: the neutral response, exit code 0
Allowed == last.exit = 0 /\ Responses = <<NEUTRAL>>

\* outcome BLOCK: one error response, exit code 2
Blocked ==
    /\ last.exit = 2
    /\ Len(Responses) = 1
    /\ Responses[1].shape = "error"

\* the read-only allow-list, as the specification enumerates it
ReadOnlyTools ==
    {"Read", "Grep", "Glob", "LS", "WebFetch", "WebSearch",
     "ListMcpResourcesTool", "ReadMcpResourceTool", "TodoRead"}

\* commands that are git commit invocations: bare, and with a flag before commit
GitCommitInvocations ==
    {<<"g", "i", "t", " ", "c", "o", "m", "m", "i", "t">>,
     <<"g", "i", "t", " ", "-", "c", " ", "a", "=", "b", " ",
       "c", "o", "m", "m", "i", "t">>}

LastIsBashGitCommit ==
    /\ LastIs("PreToolUse")
    /\ LastTool = "Bash"
    /\ LastCommand \in GitCommitInvocations

\* the question convention: Q: and at least one whitespace character
QuestionConvention(p) ==
    /\ p # Undefined
    /\ Len(p) >= 3
    /\ p[1] = "Q"
    /\ p[2] = ":"
    /\ p[3] \in {" ", "\t", "\n"}

\* the commit-approval convention: the word commit! in any case, then the end
\* of the prompt or a whitespace character
CommitConvention(p) ==
    /\ p # Undefined
    /\ Len(p) >= 7
    /\ \A k \in 1..7 :
          p[k] \in {<<"c", "o", "m", "m", "i", "t", "!">>[k],
                    <<"C", "O", "M", "M", "I", "T", "!">>[k]}
    /\ (Len(p) = 7 \/ p[8] \in {" ", "\t", "\n"})

\* r is p with exactly the Q: marker and the whitespace run after it removed
IsQuestionResidual(p, r) ==
    \E k \in 1..(Len(p) - 2) :
        /\ \A j \in 3..(2 + k) : p[j] \in {" ", "\t", "\n"}
        /\ (2 + k = Len(p) \/ p[3 + k] \notin {" ", "\t", "\n"})
        /\ r = SubSeq(p, 3 + k, Len(p))

\* r is p with exactly the commit! marker and the whitespace run after it
\* removed
IsCommitResidual(p, r) ==
    \E k \in 0..(Len(p) - 7) :
        /\ \A j \in 8..(7 + k) : p[j] \in {" ", "\t", "\n"}
        /\ (7 + k = Len(p) \/ p[8 + k] \notin {" ", "\t", "\n"})
        /\ r = SubSeq(p, 8 + k, Len(p))

\* the file at path is the same, in presence and in text, in fs1 and fs2
SameFile(fs1, fs2, path) ==
    /\ path \in DOMAIN fs1 <=> path \in DOMAIN fs2
    /\ path \in DOMAIN fs1 => fs1[path] = fs2[path]

\* the words of a command: its longest runs without whitespace
RECURSIVE Words(_)
Words(s) ==
    IF s = <<>> THEN <<>>
    ELSE IF s[1] \in {" ", "\t", "\n"} THEN Words(Tail(s))
    ELSE LET n == CHOOSE k \in 1..Len(s) :
                      /\ \A j \in 1..k : s[j] \notin {" ", "\t", "\n"}
                      /\ (k = Len(s) \/ s[k + 1] \in {" ", "\t", "\n"})
         IN  <<SubSeq(s, 1, n)>> \o Words(SubSeq(s, n + 1, Len(s)))

\* a flag, or the value that follows a flag
IsFlagWord(w, k) == w[k][1] = "-" \/ w[k - 1][1] = "-"

\* the word commit follows the word git, with nothing but flags and their
\* values between the two
IsGitCommitInvocation(c) ==
    LET w == Words(c)
    IN  \E i \in 1..Len(w) : \E j \in (i + 1)..Len(w) :
            /\ w[i] = <<"g", "i", "t">>
            /\ w[j] = <<"c", "o", "m", "m", "i", "t">>
            /\ \A k \in (i + 1)..(j - 1) : IsFlagWord(w, k)

\* the flags the handler keeps for the session id sid
FlagsOf(sid) ==
    {getQuestionPath(SessionOf(Event(sid, UNDEF))),
     getCommitPath(SessionOf(Event(sid, UNDEF)))}

\* the files fs without the flags of the session id sid
WithoutFlagsOf(fs, sid) == [p \in DOMAIN fs \ FlagsOf(sid) |-> fs[p]]

----------------------------------------------------------------------------
(* Properties *)

\* C1: a PreToolUse handled while the session's question flag is present is
\* BLOCKed with exit code 2 when the tool is outside the read-only allow-list
\* and ALLOWed with exit code 0 when the tool is in it.
QuestionBlocksAllButReadOnly ==
    (LastIs("PreToolUse") /\ HadQuestion) =>
        IF LastTool \in ReadOnlyTools THEN Allowed ELSE Blocked

\* a write tool refused while a question is pending
QuestionBlocksWitness ==
    /\ LastIs("PreToolUse")
    /\ HadQuestion
    /\ LastTool = "Write"
    /\ last.exit = 2

\* C2: without a question flag, Bash with a git commit command is BLOCKed with
\* exit code 2 when the commit-approval flag is absent and ALLOWed with exit
\* code 0 when it is present.
CommitNeedsApproval ==
    (LastIsBashGitCommit /\ ~HadQuestion) =>
        IF HadCommit THEN Allowed ELSE Blocked

\* git -c a=b commit allowed after a commit! prompt of the session
CommitNeedsApprovalWitness ==
    /\ LastIsBashGitCommit
    /\ LastCommand # GIT_COMMIT
    /\ ~HadQuestion
    /\ HadCommit
    /\ files[getCommitPath(LastSession)] = <<"x">>
    /\ last.exit = 0

\* C3: the commit-approval flag is not consumed by use: a commit-approval flag
\* that was present before an invocation and is absent after it was removed by
\* a Stop or SessionStart event of its session.
ApprovalOnlyClearedAtBoundary ==
    \A s \in Sessions :
        (getCommitPath(s) \in DOMAIN last.pre /\ getCommitPath(s) \notin DOMAIN files)
            => /\ LastIs("Stop") \/ LastIs("SessionStart")
               /\ LastSession = s

\* an approved git commit was allowed and the approval is still there
ApprovalSurvivesUseWitness ==
    /\ LastIsBashGitCommit
    /\ HadCommit
    /\ Allowed
    /\ getCommitPath(LastSession) \in DOMAIN files

\* C4: after a Stop or a SessionStart event both flags of its session are
\* absent, whatever they were before; both events leave the same files: those
\* of the other sessions, unchanged.
BoundaryClearsBothFlags ==
    (LastIs("Stop") \/ LastIs("SessionStart")) =>
        /\ getQuestionPath(LastSession) \notin DOMAIN files
        /\ getCommitPath(LastSession) \notin DOMAIN files
        /\ DOMAIN files = {p \in DOMAIN last.pre : p[1] # LastSession}
        /\ \A p \in DOMAIN files : files[p] = last.pre[p]

\* a SessionStart cleared a session that had both flags
BoundaryClearsBothWitness ==
    /\ LastIs("SessionStart")
    /\ HadQuestion
    /\ HadCommit
    /\ getQuestionPath(LastSession) \notin DOMAIN files
    /\ getCommitPath(LastSession) \notin DOMAIN files

\* C5: rule 1 takes precedence over rule 2: while the question flag is present
\* any tool outside the read-only allow-list, Bash with a git commit command
\* included, is BLOCKed with the question-pending message and exit code 2,
\* whether or not the commit-approval flag is present.
QuestionOverridesApproval ==
    (LastIs("PreToolUse") /\ HadQuestion /\ LastTool \notin ReadOnlyTools) =>
        /\ last.exit = 2
        /\ Responses = <<QUESTION_PENDING>>

\* an approved git commit refused because a question is pending
QuestionOverridesApprovalWitness ==
    /\ LastIsBashGitCommit
    /\ HadQuestion
    /\ HadCommit
    /\ Responses = <<QUESTION_PENDING>>

\* C6: a prompt that matches neither convention leaves the presence and the
\* text of both flags of every session as they were.
PlainPromptChangesNothing ==
    (/\ LastIs("UserPromptSubmit")
     /\ ~QuestionConvention(last.stdin.prompt)
     /\ ~CommitConvention(last.stdin.prompt)) => files = last.pre

\* the prompt Q:x, which lacks the whitespace, submitted over existing flags
PlainPromptWitness ==
    /\ LastIs("UserPromptSubmit")
    /\ last.stdin.prompt = <<"Q", ":", "x">>
    /\ HadQuestion
    /\ HadCommit
    /\ files = last.pre

\* C7: after a prompt that matches the question convention the session's
\* question flag is present and its text is the prompt with exactly the Q:
\* marker and the whitespace run after it removed.
QuestionStoresResidual ==
    (LastIs("UserPromptSubmit") /\ QuestionConvention(last.stdin.prompt)) =>
        /\ getQuestionPath(LastSession) \in DOMAIN files
        /\ IsQuestionResidual(last.stdin.prompt,
                              files[getQuestionPath(LastSession)])

\* Q: followed by a tab, a space and x stored x
QuestionStoresResidualWitness ==
    /\ LastIs("UserPromptSubmit")
    /\ last.stdin.prompt = <<"Q", ":", "\t", " ", "x">>
    /\ files[getQuestionPath(LastSession)] = <<"x">>

\* C8: a UserPromptSubmit event never blocks: it ends with exit code 0 and one
\* response on standard output that is no error, never with exit code 2.
PromptNeverBlocks ==
    LastIs("UserPromptSubmit") =>
        /\ last.exit = 0
        /\ Len(last.stdout) = 1
        /\ last.stdout[1].shape # "error"
        /\ last.stderr = <<>>

\* a question submitted while a question was pending got the context response
PromptNeverBlocksWitness ==
    /\ LastIs("UserPromptSubmit")
    /\ HadQuestion
    /\ QuestionConvention(last.stdin.prompt)
    /\ last.stdout = <<QUESTION_CONTEXT>>
    /\ last.exit = 0

\* C9: the response is on standard output on every allow or neutral path and
\* on standard error on every block path and every error path, the malformed
\* input fault that exits with code 1 included.
ErrorsGoToStandardError ==
    last.stdin.parse # "none" =>
        /\ last.exit = 0 => (Len(last.stdout) = 1 /\ last.stderr = <<>>)
        /\ last.exit \in {1, 2} => (Len(last.stderr) = 1 /\ last.stdout = <<>>)

\* C10: malformed or unparseable input ends with one error-shaped response and
\* exit code 1, and leaves every flag of every session unchanged.
MalformedInputIsAFault ==
    last.stdin.parse \in {"SyntaxError", "null"} =>
        /\ last.exit = 1
        /\ Len(Responses) = 1
        /\ Responses[1].shape = "error"
        /\ files = last.pre

\* unparseable input over existing flags
MalformedInputWitness ==
    /\ last.stdin.parse = "SyntaxError"
    /\ last.exit = 1
    /\ DOMAIN files # {}

\* C13: an event whose name is none of UserPromptSubmit, PreToolUse, Stop and
\* SessionStart, a missing name included, passes through: the neutral response
\* on standard output, exit code 0, and every flag of every session as before.
OtherEventsPassThrough ==
    (/\ last.stdin.parse = "object"
     /\ last.stdin.hook_event_name \notin
           {"UserPromptSubmit", "PreToolUse", "Stop", "SessionStart"}) =>
        /\ last.exit = 0
        /\ last.stdout = <<NEUTRAL>>
        /\ last.stderr = <<>>
        /\ files = last.pre

\* an event without a name passed through a session that has both flags
OtherEventsWitness ==
    /\ last.stdin.parse = "object"
    /\ last.stdin.hook_event_name = UNDEF
    /\ last.exit = 0
    /\ HadQuestion
    /\ HadCommit
    /\ files = last.pre

\* C15: a flag is created only by a prompt of its session that matches its
\* convention, and no flag of a session outlives a Stop or SessionStart of the
\* session; from the initial state without flags it follows that a flag is
\* present only if a matching prompt was submitted after the last boundary.
FlagsComeFromMatchingPrompts ==
    /\ \A s \in Sessions :
          /\ (/\ getQuestionPath(s) \in DOMAIN files
              /\ getQuestionPath(s) \notin DOMAIN last.pre)
                => /\ LastIs("UserPromptSubmit")
                   /\ LastSession = s
                   /\ QuestionConvention(last.stdin.prompt)
          /\ (/\ getCommitPath(s) \in DOMAIN files
              /\ getCommitPath(s) \notin DOMAIN last.pre)
                => /\ LastIs("UserPromptSubmit")
                   /\ LastSession = s
                   /\ CommitConvention(last.stdin.prompt)
    /\ (LastIs("Stop") \/ LastIs("SessionStart")) =>
          \A p \in DOMAIN files : p[1] # LastSession

\* COMMIT! followed by a space created the commit-approval flag
FlagsComeFromPromptsWitness ==
    /\ LastIs("UserPromptSubmit")
    /\ last.stdin.prompt = <<"C", "O", "M", "M", "I", "T", "!", " ">>
    /\ ~HadCommit
    /\ getCommitPath(LastSession) \in DOMAIN files

\* C16: every invocation emits exactly one response over standard output and
\* standard error together, on every path.
ExactlyOneResponse ==
    last.stdin.parse # "none" => Len(last.stdout) + Len(last.stderr) = 1

\* a block emitted its error and nothing else
ExactlyOneResponseWitness ==
    /\ LastIs("PreToolUse")
    /\ LastTool = "TodoWrite"
    /\ last.exit = 2
    /\ last.stdout = <<>>
    /\ Len(last.stderr) = 1

\* C19: a matching prompt leaves its flag present with the residual of that
\* prompt as text, whatever the text was; a flag whose convention the prompt
\* does not match keeps its presence and text; and the text of a flag changes
\* only by a prompt of its session that matches its convention.
SetOverwritesText ==
    /\ LastIs("UserPromptSubmit") =>
          LET p == last.stdin.prompt
              q == getQuestionPath(LastSession)
              c == getCommitPath(LastSession)
          IN  /\ IF QuestionConvention(p)
                 THEN q \in DOMAIN files /\ IsQuestionResidual(p, files[q])
                 ELSE SameFile(last.pre, files, q)
              /\ IF CommitConvention(p)
                 THEN c \in DOMAIN files /\ IsCommitResidual(p, files[c])
                 ELSE SameFile(last.pre, files, c)
    /\ \A path \in DOMAIN files \cap DOMAIN last.pre :
          files[path] # last.pre[path] =>
              /\ LastIs("UserPromptSubmit")
              /\ LastSession = path[1]
              /\ IF path[2] = "question.txt"
                 THEN QuestionConvention(last.stdin.prompt)
                 ELSE CommitConvention(last.stdin.prompt)

\* a question with an empty residual replaced the text x, the approval kept
SetOverwritesTextWitness ==
    /\ LastIs("UserPromptSubmit")
    /\ last.stdin.prompt = <<"Q", ":", " ">>
    /\ HadQuestion
    /\ last.pre[getQuestionPath(LastSession)] = <<"x">>
    /\ files[getQuestionPath(LastSession)] = <<>>
    /\ HadCommit
    /\ files[getCommitPath(LastSession)] = <<"x">>

\* C20: without a question flag a PreToolUse is BLOCKed only for Bash with a
\* command that is a git commit invocation while the commit-approval flag is
\* absent; every other PreToolUse is ALLOWed with exit code 0.
OnlyUnapprovedCommitsBlocked ==
    (LastIs("PreToolUse") /\ ~HadQuestion) =>
        IF LastTool = "Bash" /\ LastCommand \in GitCommitInvocations /\ ~HadCommit
        THEN Blocked
        ELSE Allowed

\* C11: only malformed input ends an invocation with exit code 1: every
\* well-formed event ends with exit code 0 or 2, also when a storage operation
\* fails while a flag is set, read or cleared.
WellFormedEventsEndInDecision ==
    last.stdin.parse = "object" => last.exit \in {0, 2}

\* C18: a Stop or SessionStart ends with the neutral response on standard
\* output and exit code 0, whichever of the two flags are absent, and also when
\* the deletion fails.
ClearingNeverFails ==
    (LastIs("Stop") \/ LastIs("SessionStart")) =>
        /\ last.exit = 0
        /\ last.stdout = <<NEUTRAL>>
        /\ last.stderr = <<>>

\* a Stop whose deletions failed: the question flag is still there, the
\* commit-approval flag was absent already, the response is neutral
ClearingNeverFailsWitness ==
    /\ LastIs("Stop")
    /\ env.fault = "unlink"
    /\ HadQuestion
    /\ ~HadCommit
    /\ getQuestionPath(LastSession) \in DOMAIN files
    /\ last.exit = 0
    /\ last.stdout = <<NEUTRAL>>

\* C12: logging is observational only: the outputs, the exit code and the
\* flags after an invocation are those of the same invocation, from the same
\* flags, with logging disabled, whether the log writes succeed or fail.
LoggingIsObservational ==
    last.stdin.parse # "none" =>
        LET r == handleHook(last.pre, NoLogs, FALSE, last.stdin, Nominal)
        IN  /\ last.exit = r.exit
            /\ last.stdout = r.stdout
            /\ last.stderr = r.stderr
            /\ files = r.files

\* the commit rule blocked while every log write failed
LoggingFailedWitness ==
    /\ env.logging = "failing"
    /\ LastIs("PreToolUse")
    /\ LastTool = "Bash"
    /\ last.exit = 2
    /\ last.stderr = <<COMMIT_REFUSED>>

\* C14 as stated: some prompt matches the question convention and the
\* commit-approval convention, and one event sets both flags for it.
SomePromptSetsBothFlags ==
    \E prompt \in Pieces(MaxPieces) :
        LET hookData == [Event("s1", "UserPromptSubmit") EXCEPT !.prompt = prompt]
            r == handleHook(files, log, dirExists, hookData, Nominal)
        IN  /\ isQuestionPrefix(prompt)
            /\ isCommitPrefix(prompt)
            /\ getQuestionPath("s1") \in DOMAIN r.files
            /\ getCommitPath("s1") \in DOMAIN r.files

\* C14, amended: the two recognizers are evaluated independently, each flag is
\* set exactly when the prompt matches its own convention, and no prompt
\* matches both (each convention fixes the first character of the prompt), so
\* one event sets at most one flag.
RecognizersAreExclusive ==
    (LastIs("UserPromptSubmit") /\ last.pre = NoFiles) =>
        LET p == last.stdin.prompt
            q == getQuestionPath(LastSession)
            c == getCommitPath(LastSession)
        IN  /\ q \in DOMAIN files <=> QuestionConvention(p)
            /\ c \in DOMAIN files <=> CommitConvention(p)
            /\ ~(q \in DOMAIN files /\ c \in DOMAIN files)

\* a question whose text is commit! set the question flag only
RecognizersAreExclusiveWitness ==
    /\ LastIs("UserPromptSubmit")
    /\ last.stdin.prompt = <<"Q", ":", " ", "c", "o", "m", "m", "i", "t", "!">>
    /\ last.pre = NoFiles
    /\ DOMAIN files = {getQuestionPath(LastSession)}
    /\ files[getQuestionPath(LastSession)] = <<"c", "o", "m", "m", "i", "t", "!">>

\* s is t, or t without some of its last elements
IsPrefix(s, t) == Len(s) <= Len(t) /\ SubSeq(t, 1, Len(s)) = s

\* C17: the log of a session is append-only: every invocation, a Stop or
\* SessionStart included, leaves the log of every session as a prefix of what
\* it is afterwards, and with logging that works the log of its session grows.
LogIsAppendOnly ==
    [][/\ \A s \in Sessions : IsPrefix(log[s], log'[s])
       /\ env.logging = "on" =>
             \E s \in Sessions : Len(log'[s]) > Len(log[s])]_vars

\* a Stop cleared the question flag; the log keeps the records of the question
\* and ends with the record of the cleanup
LogSurvivesCleanupWitness ==
    /\ LastIs("Stop")
    /\ HadQuestion
    /\ getQuestionPath(LastSession) \notin DOMAIN files
    /\ \E i \in 1..Len(log[LastSession]) :
          log[LastSession][i] = "question_detected"
    /\ log[LastSession][Len(log[LastSession])] = "session_cleanup"

\* C21: a Bash command is classified as a git commit, and so refused in a
\* session without flags, exactly when the word commit follows the word git
\* with nothing but flags between them; commit as the argument of another
\* subcommand, or in a later command, does not count.
CommitClassifiedExactly ==
    (/\ LastIs("PreToolUse")
     /\ LastTool = "Bash"
     /\ ~HadQuestion
     /\ ~HadCommit) =>
        (Blocked <=> IsGitCommitInvocation(LastCommand))

\* C22: a PreToolUse only reads: ALLOWed or BLOCKed, it leaves the presence
\* and the text of the flags of every session as they were.
PreToolUseOnlyReads ==
    LastIs("PreToolUse") => files = last.pre

\* an approved git commit was allowed while the other session had both flags:
\* all three flags are still there
PreToolUseOnlyReadsWitness ==
    /\ LastIsBashGitCommit
    /\ Allowed
    /\ HadCommit
    /\ Cardinality(DOMAIN last.pre) = 3
    /\ files = last.pre

\* C23: sessions are isolated: an event of one session id leaves the flags of
\* every other session id as they were, and the decision of a PreToolUse is
\* the one it would be without the flags of any other session id.
SessionsAreIsolated ==
    last.stdin.parse = "object" =>
        \A other \in ManySessionIds \ {last.stdin.session_id} :
            /\ \A path \in FlagsOf(other) : SameFile(last.pre, files, path)
            /\ LastIs("PreToolUse") =>
                  Responses =
                      <<PreToolUseDecision(WithoutFlagsOf(last.pre, other), last.stdin)>>

\* C24: a PreToolUse that runs while a cleanup of its session runs decides as
\* it would on the flags before the cleanup or on the flags after it; a git
\* commit that is BLOCKed on both is never ALLOWed in between.
RacedDecisionIsSerial ==
    [][(/\ IsRunning(running.check)
        /\ ~IsRunning(running'.check)
        /\ running.check.raced) =>
            LET hookData == running.check.stdin
                before == running.check.before
                after == WithoutFlagsOf(before, hookData.session_id)
            IN  last'.stdout \o last'.stderr \in
                    {<<PreToolUseDecision(before, hookData)>>,
                     <<PreToolUseDecision(after, hookData)>>}]_vars

\* C25: within one invocation the state changes come before the response:
\* when a UserPromptSubmit writes its response every flag its prompt matches is
\* in storage with the residual as text, and when a Stop or SessionStart writes
\* its response both deletions are done, so an invocation started after the
\* response finds the flags updated.
ResponseFollowsStateChange ==
    [][LET prompting == running.prompt
           cleaning == running.cleanup
       IN  /\ (/\ IsRunning(prompting)
               /\ prompting.program[prompting.pc] = "respond"
               /\ running'.prompt # prompting) =>
                  LET p == prompting.stdin.prompt
                      q == getQuestionPath(SessionOf(prompting.stdin))
                      c == getCommitPath(SessionOf(prompting.stdin))
                  IN  /\ QuestionConvention(p) =>
                            q \in DOMAIN files /\ IsQuestionResidual(p, files[q])
                      /\ CommitConvention(p) =>
                            c \in DOMAIN files /\ IsCommitResidual(p, files[c])
           /\ (/\ IsRunning(cleaning)
               /\ cleaning.program[cleaning.pc] = "respond"
               /\ running'.cleanup # cleaning) =>
                  FlagsOf(cleaning.stdin.session_id) \cap DOMAIN files = {}]_vars

\* the response to commit! x has been written, and the approval it created is
\* in storage for the invocations that follow
ResponseFollowsWitness ==
    /\ running = Idle
    /\ LastIs("UserPromptSubmit")
    /\ last.stdin.prompt = <<"c", "o", "m", "m", "i", "t", "!", " ", "x">>
    /\ last.stdout = <<NEUTRAL>>
    /\ ~HadCommit
    /\ files[getCommitPath(LastSession)] = <<"x">>

====
